---- MODULE Spec2Model ----
(***************************************************************************)
(* Model of the anthropic-max-proxy service: the OAuth token manager       *)
(* (oauth.py), the completions dispatcher and streaming generator          *)
(* (main.py) and the stream transcoder (translator.py).                    *)
(*                                                                         *)
(* The service runs on one asyncio event loop: code between two awaits is  *)
(* atomic with respect to the other requests, so every action below is the *)
(* code from one suspension point to the next.  The only finer step is the *)
(* inside of TokenManager.save (write_text, then chmod), whose             *)
(* intermediate file-system state is visible to the rest of the host.      *)
(***************************************************************************)
EXTENDS Integers, Sequences, FiniteSets, TLC

\* ------------------------------------------------------------------ bounds
NReq == 2          \* request slots that may be in flight at once
MaxTime == 1       \* clock ticks
MaxIssued == 2     \* token sets the token endpoint mints (the stored one included)
MaxLines == 3      \* upstream lines read by one streaming session
MaxPairs == 2      \* well-formed upstream events of one streaming session
MaxMsgs == 2       \* messages of one downstream completion request

\* ------------------------------------------------------- program constants
BufferSeconds == 60      \* OAuthTokens.is_expired(buffer_seconds=60)
OwnerOnly == 384         \* 0o600, TokenManager.save chmod
CreateMode == 438        \* 0o666, the mode open() asks for in write_text
Unauthorized == 401      \* chat_completions HTTPException(status_code=401)
BadRequest == 400        \* auth_callback HTTPException(status_code=400)
ServerError == 500       \* an exception no handler catches
StatusOK == 200          \* JSONResponse / StreamingResponse default

Reqs == 1..NReq

\* Python's None, and the empty JSON object {}.
None == [py |-> "None"]
EmptyObj == <<>>

\* Access / refresh tokens are strings; the model names them by number, 0 the
\* empty string.  NoAccess is get_valid_token's None.
NoAccess == -1

\* expires_in values the token endpoint answers with: 10 s (inside the
\* buffer), 61 s (outside now, inside after one tick), 600 s.
ExpiresIn == {10, 61, 600}

\* umask values of the host: 0o022 and 0o077.
Umasks == {18, 63}

\* Non-2xx answers and bodies of the upstream messages endpoint.
ErrorStatuses == {400, 529}
Bodies == {"overloaded", "invalid"}

\* PKCE verifiers (named by number): the one generate_pkce draws, and the
\* ones a caller may supply.
Generated == {1}
Supplied == {2}

\* Outcomes of one POST to the token endpoint.
TokenOutcomes == {"ok", "non2xx", "transport", "missing"}

\* A 2xx answer of the token endpoint with all three fields: "ok", or
\* "ok_empty" when its two token strings are empty.  Its expires_in may also
\* be zero or negative.
Successes == {"ok", "ok_empty"}
AnyExpiresIn == ExpiresIn \cup {0, -5}

VARIABLES
    now,            \* time.time()
    tm_tokens,      \* TokenManager._tokens
    tm_pkce,        \* TokenManager._pkce (its verifier, 0 for None)
    token_file,     \* the file at TokenManager.token_file
    issued,         \* token sets minted so far by the token endpoint
    req,            \* per request slot: handler position and locals
    api_request,    \* the request the last step sent to the upstream messages endpoint
    response,       \* the downstream response the last step completed
    failed_no_auth  \* history: a refresh failed and no code exchange succeeded since

vars == <<now, tm_tokens, tm_pkce, token_file, issued, req, api_request, response,
          failed_no_auth>>

\* ------------------------------------------------------------- primitives

RECURSIVE AndNot(_, _)
\* a & ~b on non-negative integers.
AndNot(a, b) ==
    IF a = 0 THEN 0
    ELSE 2 * AndNot(a \div 2, b \div 2)
         + (IF a % 2 = 1 /\ b % 2 = 0 THEN 1 ELSE 0)

\* dict.get(k, default)
Get(d, k, default) == IF k \in DOMAIN d THEN d[k] ELSE default

OAuthTokens(a, r, e) == [access_token |-> a, refresh_token |-> r, expires_at |-> e]

\* is_expired with the boundary instant left out.
is_expired_strict(tokens, t) == t > tokens.expires_at - BufferSeconds

\* OAuthTokens.is_expired, at time t
is_expired(tokens, t) == t >= tokens.expires_at - BufferSeconds

\* OAuthTokens.to_dict: the JSON object save writes.
to_dict(tokens) ==
    [access_token |-> tokens.access_token, refresh_token |-> tokens.refresh_token,
     expires_at |-> tokens.expires_at]

\* from_dict reading expires_at in whole minutes.
from_dict_rounded(data) ==
    OAuthTokens(data["access_token"], data["refresh_token"],
                (data["expires_at"] \div 60) * 60)

\* OAuthTokens.from_dict
from_dict(data) ==
    OAuthTokens(data["access_token"], data["refresh_token"], data["expires_at"])

\* The token file: kind "absent", "tokens" (a JSON object with the three
\* keys, tok), "missing_key" (a JSON object lacking one), "not_object" (JSON
\* that is no object) or "invalid_json"; its mode; and, as history, the token
\* set last persisted in it (None when the file is not of save's making).
AbsentFile == [kind |-> "absent", tok |-> None, mode |-> 0, saved |-> None]

\* json.loads + OAuthTokens.from_dict of the file's text; a JSONDecodeError
\* or KeyError is caught by load and gives None.
parse_file(f) ==
    IF f.kind \in {"tokens", "missing_key"}
       /\ {"access_token", "refresh_token", "expires_at"} \subseteq DOMAIN f.tok
    THEN from_dict(f.tok)
    ELSE None

\* load raises: data[...] on JSON that is no object is a TypeError, which
\* load does not catch.
load_raises(cache, f) == cache = None /\ f.kind = "not_object"

\* TokenManager.load: its return value, and _tokens after it.
load(cache, f) ==
    IF cache # None THEN cache
    ELSE IF f.kind # "absent" THEN parse_file(f)
    ELSE None

cache_after_load(cache, f) == load(cache, f)

\* Path.write_text: creates the file with 0o666 & ~umask, or truncates an
\* existing file and keeps its mode.
write_text_kept(f, tokens, um) == f

write_text(f, tokens, um) ==
    [kind |-> "tokens", tok |-> to_dict(tokens),
     mode |-> IF f.kind = "absent" THEN AndNot(CreateMode, um) ELSE f.mode,
     saved |-> tokens]

chmod(f, m) == [f EXCEPT !.mode = m]

\* The test of chat_completions left out.
not_access_token_skipped(a) == FALSE

\* chat_completions: `if not access_token`
not_access_token(a) == a = NoAccess \/ a = 0

\* HTTPException(status_code=response.status_code, ...) of _handle_non_streaming
error_status(s) == s

\* A 2xx status (httpx Response.is_success).
is_success(s) == s >= 200 /\ s < 300

\* One POST to the token endpoint, as refresh_tokens sees it.  outcome is the
\* endpoint's answer, n the token it mints, e its expires_in, t the time.
\* A transport error is raised by client.post, a missing field by data[...]:
\* neither is caught.
refresh_tokens(outcome, n, e, t) ==
    CASE outcome = "ok" -> [raised |-> FALSE, value |-> OAuthTokens(n, n, t + e)]
      [] outcome = "ok_empty" -> [raised |-> FALSE, value |-> OAuthTokens(0, 0, t + e)]
      [] outcome = "non2xx" -> [raised |-> FALSE, value |-> None]
      [] OTHER -> [raised |-> TRUE, value |-> None]

\* The same POST as exchange_code sees it.
exchange_code(outcome, n, e, t) ==
    CASE outcome = "ok" -> [raised |-> FALSE, value |-> OAuthTokens(n, n, t + e)]
      [] outcome = "ok_empty" -> [raised |-> FALSE, value |-> OAuthTokens(0, 0, t + e)]
      [] outcome = "non2xx" -> [raised |-> FALSE, value |-> None]
      [] OTHER -> [raised |-> TRUE, value |-> None]

\* ------------------------------------------------------------- transcoder

finish_reason_map(stop_reason) ==
    CASE stop_reason = "end_turn" -> "stop"
      [] stop_reason = "max_tokens" -> "length"
      [] stop_reason = "stop_sequence" -> "stop"
      [] stop_reason = "tool_use" -> "tool_calls"
      [] OTHER -> "stop"

\* One downstream chunk ("created" is the wall clock and is left out).
Chunk(id, model, delta, finish_reason) ==
    [id |-> id, object |-> "chat.completion.chunk", model |-> model,
     choices |-> <<[index |-> 0, delta |-> delta, finish_reason |-> finish_reason]>>]

anthropic_stream_to_openai_stream(event_type, data, model) ==
    CASE event_type = "message_start" ->
           Chunk(Get(Get(data, "message", EmptyObj), "id", "chatcmpl-anthropic"), model,
                 [role |-> "assistant", content |-> ""], "null")
      [] event_type = "content_block_delta" ->
           LET delta == Get(data, "delta", EmptyObj) IN
           CASE Get(delta, "type", "") = "text_delta" ->
                  Chunk("chatcmpl-anthropic", model,
                        [content |-> Get(delta, "text", "")], "null")
             [] Get(delta, "type", "") = "input_json_delta" ->
                  Chunk("chatcmpl-anthropic", model,
                        [tool_calls |->
                           <<[index |-> Get(data, "index", 0),
                              function |-> [arguments |-> Get(delta, "partial_json", "")]]>>],
                        "null")
             [] OTHER -> None
      [] event_type = "content_block_start" ->
           LET block == Get(data, "content_block", EmptyObj) IN
           IF Get(block, "type", "") = "tool_use"
           THEN Chunk("chatcmpl-anthropic", model,
                      [tool_calls |->
                         <<[index |-> Get(data, "index", 0),
                            id |-> Get(block, "id", ""),
                            type |-> "function",
                            function |-> [name |-> Get(block, "name", ""),
                                          arguments |-> ""]]>>],
                      "null")
           ELSE None
      [] event_type = "message_delta" ->
           LET stop_reason == Get(Get(data, "delta", EmptyObj), "stop_reason", "") IN
           IF stop_reason # ""
           THEN Chunk("chatcmpl-anthropic", model, EmptyObj, finish_reason_map(stop_reason))
           ELSE None
      [] event_type = "message_stop" ->
           Chunk("chatcmpl-anthropic", model, EmptyObj, "stop")
      [] OTHER -> None

\* Downstream SSE items: f"data: {json}\n\n" and "data: [DONE]\n\n".
SseData(json) == [sse |-> "data", json |-> json]
SseDone == [sse |-> "[DONE]", json |-> EmptyObj]

\* Upstream lines as aiter_lines yields them, already split the way generate
\* splits them: "", "event: <name>", "data: <json>" (valid or not), other.
BlankLine == [kind |-> "blank", name |-> "", valid |-> FALSE, json |-> EmptyObj]
EventLine(name) == [kind |-> "event", name |-> name, valid |-> FALSE, json |-> EmptyObj]
DataLine(json) == [kind |-> "data", name |-> "", valid |-> TRUE, json |-> json]
BadDataLine == [kind |-> "data", name |-> "", valid |-> FALSE, json |-> EmptyObj]

TextDelta(text) == [index |-> 0, delta |-> [type |-> "text_delta", text |-> text]]

Model == "claude-sonnet"

\* The lines the upstream may send.
Lines ==
    {BlankLine, BadDataLine,
     EventLine("message_start"), EventLine("content_block_delta"),
     EventLine("message_delta"), EventLine("message_stop"), EventLine("ping"),
     DataLine([message |-> [id |-> "msg_1"]]),
     DataLine(TextDelta("Hel")), DataLine(TextDelta("lo")),
     DataLine([delta |-> [stop_reason |-> "max_tokens"]]), DataLine(EmptyObj)}

\* No value yet (history fields).
\* ------------------------------------------------------ request translator

\* JSON values of the request and response bodies.  A string is the sequence
\* of its pieces (so that concatenation is \o and "" is the empty sequence),
\* a list is the sequence of its items; both are wrapped so that they can
\* stand where None can.
Str(pieces) == [str |-> pieces]
List(items) == [list |-> items]
Sep == Str(<<"\n\n">>)
Concat(a, b) == Str(a.str \o b.str)

\* Python's `not x` for None, a str or a list.
Falsy(x) == x \in {None, Str(<<>>), List(<<>>)}

\* d with key k set to v.
With(d, k, v) == [x \in DOMAIN d \cup {k} |-> IF x = k THEN v ELSE d[x]]

MODEL_MAP_chained ==
    ("claude-3-5-sonnet-20241022" :> "claude-3-5-sonnet-20241022")
    @@ ("claude-3-5-haiku-20241022" :> "claude-3-5-haiku-20241022")
    @@ ("claude-3-opus-20240229" :> "claude-3-opus-20240229")
    @@ ("claude-3-sonnet-20240229" :> "claude-3-sonnet-20240229")
    @@ ("claude-3-haiku-20240307" :> "claude-3-haiku-20240307")
    @@ ("claude-sonnet-4" :> "claude-sonnet-4-20250514")
    @@ ("claude-3.5-sonnet" :> "claude-3-5-sonnet-20241022")
    @@ ("claude-3.5-haiku" :> "claude-3-5-haiku-20241022")
    @@ ("claude-opus-4" :> "claude-opus-4-20250514")
    @@ ("claude-sonnet" :> "claude-sonnet-4")
    @@ ("claude-opus" :> "claude-opus-4-20250514")

MODEL_MAP ==
    ("claude-3-5-sonnet-20241022" :> "claude-3-5-sonnet-20241022")
    @@ ("claude-3-5-haiku-20241022" :> "claude-3-5-haiku-20241022")
    @@ ("claude-3-opus-20240229" :> "claude-3-opus-20240229")
    @@ ("claude-3-sonnet-20240229" :> "claude-3-sonnet-20240229")
    @@ ("claude-3-haiku-20240307" :> "claude-3-haiku-20240307")
    @@ ("claude-sonnet-4" :> "claude-sonnet-4-20250514")
    @@ ("claude-3.5-sonnet" :> "claude-3-5-sonnet-20241022")
    @@ ("claude-3.5-haiku" :> "claude-3-5-haiku-20241022")
    @@ ("claude-opus-4" :> "claude-opus-4-20250514")
    @@ ("claude-sonnet" :> "claude-sonnet-4-20250514")
    @@ ("claude-opus" :> "claude-opus-4-20250514")

translate_model(openai_model) == Get(MODEL_MAP, openai_model, openai_model)

\* The loop of openai_to_anthropic_messages from message i on.
RECURSIVE messages_loop(_, _, _, _)
messages_loop(messages, i, system_prompt, anthropic_messages) ==
    IF i > Len(messages)
    THEN [system_prompt |-> system_prompt, messages |-> anthropic_messages]
    ELSE LET msg == messages[i]
             role == Get(msg, "role", "")
             content == Get(msg, "content", Str(<<>>))
         IN  CASE role = "system" ->
                    messages_loop(messages, i + 1,
                                  IF ~Falsy(system_prompt)
                                  THEN Concat(system_prompt, Concat(Sep, content))
                                  ELSE content,
                                  anthropic_messages)
               [] role = "user" ->
                    messages_loop(messages, i + 1, system_prompt,
                                  Append(anthropic_messages,
                                         [role |-> "user", content |-> content]))
               [] role = "assistant" ->
                    messages_loop(messages, i + 1, system_prompt,
                                  Append(anthropic_messages,
                                         [role |-> "assistant", content |-> content]))
               [] role = "tool" ->
                    messages_loop(messages, i + 1, system_prompt,
                                  Append(anthropic_messages,
                                         [role |-> "user",
                                          content |->
                                            List(<<[type |-> "tool_result",
                                                    tool_use_id |->
                                                      Get(msg, "tool_call_id", ""),
                                                    content |-> content]>>)]))
               [] OTHER ->
                    messages_loop(messages, i + 1, system_prompt, anthropic_messages)

openai_to_anthropic_messages(messages) == messages_loop(messages, 1, None, <<>>)

\* The loop of openai_to_anthropic_tools from tool i on.
RECURSIVE tools_loop(_, _, _)
tools_loop(tools, i, anthropic_tools) ==
    IF i > Len(tools)
    THEN anthropic_tools
    ELSE LET tool == tools[i]
             func == Get(tool, "function", EmptyObj)
         IN  IF Get(tool, "type", "") # "function"
             THEN tools_loop(tools, i + 1, anthropic_tools)
             ELSE tools_loop(tools, i + 1,
                             Append(anthropic_tools,
                                    [name |-> Get(func, "name", ""),
                                     description |-> Get(func, "description", ""),
                                     input_schema |-> Get(func, "parameters", EmptyObj)]))

openai_to_anthropic_tools(tools) ==
    IF Falsy(tools)
    THEN None
    ELSE LET anthropic_tools == tools_loop(tools.list, 1, <<>>) IN
         IF anthropic_tools # <<>> THEN List(anthropic_tools) ELSE None

DefaultMaxTokens == 4096

openai_to_anthropic_request(openai_request) ==
    LET converted == openai_to_anthropic_messages(Get(openai_request, "messages", <<>>))
        base == [model |-> translate_model(Get(openai_request, "model", "")),
                 messages |-> converted.messages,
                 max_tokens |-> Get(openai_request, "max_tokens", DefaultMaxTokens)]
        with_system == IF ~Falsy(converted.system_prompt)
                       THEN With(base, "system", converted.system_prompt)
                       ELSE base
        with_temperature == IF "temperature" \in DOMAIN openai_request
                            THEN With(with_system, "temperature",
                                      openai_request.temperature)
                            ELSE with_system
        with_top_p == IF "top_p" \in DOMAIN openai_request
                      THEN With(with_temperature, "top_p", openai_request.top_p)
                      ELSE with_temperature
        stop == Get(openai_request, "stop", None)
        with_stop == IF "str" \in DOMAIN stop
                     THEN With(with_top_p, "stop_sequences", List(<<stop>>))
                     ELSE IF "list" \in DOMAIN stop
                     THEN With(with_top_p, "stop_sequences", stop)
                     ELSE with_top_p
        tools == openai_to_anthropic_tools(Get(openai_request, "tools", None))
        with_tools == IF ~Falsy(tools) THEN With(with_stop, "tools", tools) ELSE with_stop
    IN  IF Get(openai_request, "stream", FALSE)
        THEN With(with_tools, "stream", TRUE)
        ELSE with_tools

\* ----------------------------------------------------- response translator

\* json.dumps(obj): the text of obj, not obj.
serialize_json(obj) == [dumps |-> obj]

\* f"call_{i}"
call_id(i) == <<"call_0", "call_1", "call_2", "call_3">>[i + 1]

\* The loop of anthropic_to_openai_response from block i on (enumerate
\* counts from 0, the sequence from 1).
RECURSIVE blocks_loop(_, _, _, _)
blocks_loop(content_blocks, i, text_content, tool_calls) ==
    IF i > Len(content_blocks)
    THEN [text_content |-> text_content, tool_calls |-> tool_calls]
    ELSE LET block == content_blocks[i] IN
         CASE Get(block, "type", "") = "text" ->
                blocks_loop(content_blocks, i + 1,
                            Concat(text_content, Get(block, "text", Str(<<>>))),
                            tool_calls)
           [] Get(block, "type", "") = "tool_use" ->
                blocks_loop(content_blocks, i + 1, text_content,
                            Append(tool_calls,
                                   [id |-> Get(block, "id", call_id(i - 1)),
                                    type |-> "function",
                                    function |->
                                      [name |-> Get(block, "name", ""),
                                       arguments |->
                                         serialize_json(Get(block, "input", EmptyObj))]]))
           [] OTHER -> blocks_loop(content_blocks, i + 1, text_content, tool_calls)

\* The finish_reason_map of anthropic_to_openai_response.
response_finish_reason_identity(stop_reason) == stop_reason

response_finish_reason(stop_reason) ==
    CASE stop_reason = "end_turn" -> "stop"
      [] stop_reason = "max_tokens" -> "length"
      [] stop_reason = "stop_sequence" -> "stop"
      [] stop_reason = "tool_use" -> "tool_calls"
      [] OTHER -> "stop"

\* "created" is the wall clock and is left out.
anthropic_to_openai_response(anthropic_response, model) ==
    LET blocks == blocks_loop(Get(anthropic_response, "content", <<>>), 1, Str(<<>>), <<>>)
        content == IF ~Falsy(blocks.text_content) THEN blocks.text_content ELSE None
        message == IF blocks.tool_calls # <<>>
                   THEN [role |-> "assistant", content |-> content,
                         tool_calls |-> blocks.tool_calls]
                   ELSE [role |-> "assistant", content |-> content]
        stop_reason == Get(anthropic_response, "stop_reason", "end_turn")
        usage == Get(anthropic_response, "usage", EmptyObj)
    IN  [id |-> Get(anthropic_response, "id", "chatcmpl-anthropic"),
         object |-> "chat.completion",
         model |-> model,
         choices |-> <<[index |-> 0, message |-> message,
                        finish_reason |-> response_finish_reason(stop_reason)]>>,
         usage |-> [prompt_tokens |-> Get(usage, "input_tokens", 0),
                    completion_tokens |-> Get(usage, "output_tokens", 0),
                    total_tokens |-> Get(usage, "input_tokens", 0)
                                     + Get(usage, "output_tokens", 0)]]

Unset == NoAccess - 1

\* A request slot.  peer is history: what a concurrent get_valid_token call
\* that refreshed the same token set has returned while this one was
\* suspended in its own refresh; read is history: the upstream lines generate
\* has read; model is chat_completions' original_model; verifier and v are
\* complete_auth_flow's argument and the verifier it sends.
IdleReq ==
    [pc |-> "idle", kind |-> "none", tokens |-> None, new_tokens |-> None,
     peer |-> Unset, out |-> <<>>, event_type |-> "unbound", nread |-> 0,
     read |-> <<>>, model |-> "", verifier |-> 0, v |-> 0]

\* A completed downstream response: the handler, what get_valid_token gave
\* it, the status, the upstream status and body text it reports, the SSE
\* items of a streaming body and how the body ended, the token endpoint's
\* answer if the handler asked it, and the JSON body of a non-streaming
\* completion with (history) the upstream JSON it was made from.
NoResponse ==
    [kind |-> "none", gvt |-> "n/a", status |-> 0, upstream |-> 0, detail |-> "",
     out |-> <<>>, end |-> "", outcome |-> "none", peer |-> Unset, read |-> <<>>,
     json |-> EmptyObj, answered |-> EmptyObj]

\* A request to the upstream messages endpoint: its Bearer token and JSON
\* body, with (history) the downstream JSON it was translated from.
NoRequest ==
    [bearer |-> NoAccess, stream |-> FALSE, gvt |-> "n/a", peer |-> Unset,
     openai |-> EmptyObj, body |-> EmptyObj]

\* The body of a downstream POST: bytes that parse to the JSON object json,
\* or bytes that do not parse.
JsonBody(json) == [valid |-> TRUE, json |-> json]
BadJson == [valid |-> FALSE, json |-> EmptyObj]

\* One plain completion request, streaming or not, and one plain upstream
\* answer to it.
PlainRequest(stream) ==
    JsonBody([model |-> Model,
              messages |-> <<[role |-> "user", content |-> Str(<<"hi">>)]>>,
              stream |-> stream])
PlainResponse ==
    [id |-> "msg_1", content |-> <<[type |-> "text", text |-> Str(<<"Hello">>)]>>,
     stop_reason |-> "end_turn", usage |-> [input_tokens |-> 1, output_tokens |-> 1]]

\* Well-formed upstream events: the `event:` line's name and the `data:`
\* line's JSON.
PairOf(event, data) == [event |-> event, data |-> data]

Pairs ==
    {PairOf("message_start", [message |-> [id |-> "msg_1"]]),
     PairOf("content_block_start",
            [index |-> 0, content_block |-> [type |-> "text", text |-> ""]]),
     PairOf("content_block_start",
            [index |-> 1, content_block |->
               [type |-> "tool_use", id |-> "toolu_1", name |-> "get_weather"]]),
     PairOf("content_block_delta", TextDelta("Hel")),
     PairOf("content_block_delta", TextDelta("lo")),
     PairOf("content_block_delta", TextDelta("")),
     PairOf("content_block_delta",
            [index |-> 1, delta |-> [type |-> "input_json_delta", partial_json |-> "{"]]),
     PairOf("content_block_stop", [index |-> 0]),
     PairOf("message_delta", [delta |-> [stop_reason |-> "max_tokens"]]),
     PairOf("message_delta", [delta |-> EmptyObj, usage |-> [output_tokens |-> 5]]),
     PairOf("message_stop", [type |-> "message_stop"]),
     PairOf("ping", [type |-> "ping"])}

\* generate_line putting each new chunk before the ones already emitted.
generate_line_reordered(r, line) ==
    LET r1 == [r EXCEPT !.nread = @ + 1, !.read = Append(@, line)] IN
    CASE line.kind = "event" -> [r1 EXCEPT !.event_type = line.name]
      [] line.kind = "data" /\ line.valid /\ r.event_type # "unbound" ->
           LET c == anthropic_stream_to_openai_stream(r.event_type, line.json, r.model) IN
           IF c # None THEN [r1 EXCEPT !.out = <<SseData(c)>> \o @] ELSE r1
      [] line.kind = "data" /\ line.valid -> [r1 EXCEPT !.pc = "raised"]
      [] OTHER -> r1

\* generate_line without the `except json.JSONDecodeError`.
generate_line_abort(r, line) ==
    LET r1 == [r EXCEPT !.nread = @ + 1, !.read = Append(@, line)] IN
    CASE line.kind = "event" -> [r1 EXCEPT !.event_type = line.name]
      [] line.kind = "data" /\ line.valid /\ r.event_type # "unbound" ->
           LET c == anthropic_stream_to_openai_stream(r.event_type, line.json, r.model) IN
           IF c # None THEN [r1 EXCEPT !.out = Append(@, SseData(c))] ELSE r1
      [] line.kind = "data" -> [r1 EXCEPT !.pc = "raised"]
      [] OTHER -> r1

\* The body of generate's loop for one line: the session's locals after it,
\* .pc = "raised" when the line makes generate raise (event_type unbound).
generate_line(r, line) ==
    LET r1 == [r EXCEPT !.nread = @ + 1, !.read = Append(@, line)] IN
    CASE line.kind = "event" -> [r1 EXCEPT !.event_type = line.name]
      [] line.kind = "data" /\ ~line.valid -> r1
      [] line.kind = "data" /\ line.valid ->
           IF r.event_type = "unbound"
           THEN [r1 EXCEPT !.pc = "raised"]
           ELSE LET c == anthropic_stream_to_openai_stream(r.event_type, line.json, r.model) IN
                IF c # None THEN [r1 EXCEPT !.out = Append(@, SseData(c))] ELSE r1
      [] OTHER -> r1

\* Slots only name the requests in flight, so states are kept up to a
\* renaming of the slots: after every step the slots are put in the order
\* of SlotKey, idle slots last.
PcOrder ==
    [refresh |-> 1, chmod |-> 2, exchange |-> 3, api |-> 4, connect |-> 5,
     stream |-> 6, idle |-> 7]

SlotKey(r) ==
    PcOrder[r.pc] * 100
    + (IF r.tokens = None THEN 0 ELSE r.tokens.refresh_token) * 10
    + (r.peer - Unset)

\* Every slot with its key, made unique by the slot's number.
Keyed(rs) == {<<SlotKey(rs[i]) * (NReq + 1) + i, i>> : i \in Reqs}

\* The slot that comes k-th in the order.
Place(keyed, k) ==
    (CHOOSE pr \in keyed : Cardinality({q \in keyed : q[1] < pr[1]}) = k - 1)[2]

Canon(slots) ==
    CHOOSE ordered \in {[k \in Reqs |-> rs[Place(keyed, k)]]
                        : rs \in {slots}, keyed \in {Keyed(slots)}} : TRUE

Quiescent == \A q \in Reqs : req[q].pc # "chmod"
Free(p) == req[p].pc = "idle" /\ Quiescent

StoredFiles ==
    {AbsentFile,
     [kind |-> "invalid_json", tok |-> None, mode |-> OwnerOnly, saved |-> None]}
    \cup {[kind |-> "tokens", tok |-> to_dict(OAuthTokens(1, 1, e)), mode |-> OwnerOnly,
           saved |-> OAuthTokens(1, 1, e)]
          : e \in ExpiresIn}

\* Token files that do not parse into a token set.
CorruptFiles ==
    {[kind |-> "invalid_json", tok |-> None, mode |-> OwnerOnly, saved |-> None],
     [kind |-> "missing_key", tok |-> [access_token |-> 1, refresh_token |-> 1],
      mode |-> OwnerOnly, saved |-> None],
     [kind |-> "not_object", tok |-> <<>>, mode |-> OwnerOnly, saved |-> None]}

Init ==
    /\ now = 0
    /\ tm_tokens = None
    /\ tm_pkce = 0
    /\ token_file \in StoredFiles
    /\ issued = 1
    /\ req = [p \in Reqs |-> IdleReq]
    /\ api_request = NoRequest
    /\ response = NoResponse
    /\ failed_no_auth = FALSE

\* A step that sends nothing upstream and completes no response.
Silent == api_request' = NoRequest /\ response' = NoResponse

Tick ==
    /\ Quiescent
    /\ now < MaxTime
    /\ now' = now + 1
    /\ Silent
    /\ UNCHANGED <<tm_tokens, tm_pkce, token_file, issued, req, failed_no_auth>>

\* Slot p goes on with locals r, nothing sent or answered.
Continue(p, r) ==
    /\ req' = Canon([req EXCEPT ![p] = r])
    /\ Silent

\* The handler of slot p completes with response r; rs is req with the
\* history of the other slots brought up to date.
Respond(p, r, rs) ==
    /\ response' = r
    /\ api_request' = NoRequest
    /\ req' = Canon([rs EXCEPT ![p] = IdleReq])

Answer(kind, gvt, status, outcome) ==
    [NoResponse EXCEPT !.kind = kind, !.gvt = gvt, !.status = status, !.outcome = outcome]

\* req with a's return noted in the slots still refreshing refresh token k.
NotePeers(k, a) ==
    [q \in Reqs |->
       IF req[q].pc = "refresh" /\ req[q].tokens.refresh_token = k /\ req[q].peer = Unset
       THEN [req[q] EXCEPT !.peer = a]
       ELSE req[q]]

\* chat_completions once get_valid_token has returned a: the 401, or the
\* upstream request with the Bearer token.  The body raw is read only now
\* (request.json() follows get_valid_token): bytes that do not parse make
\* request.json() raise, anything else is translated and sent.
chat_completions(p, raw, gvt, a, outcome, rs) ==
    IF not_access_token(a)
    THEN Respond(p, [Answer("chat", gvt, Unauthorized, outcome) EXCEPT !.peer = req[p].peer],
                 rs)
    ELSE IF ~raw.valid
    THEN Respond(p, [Answer("chat", gvt, ServerError, outcome) EXCEPT
                        !.peer = req[p].peer, !.end = "json_raised"],
                 rs)
    ELSE LET openai_request == raw.json
             anthropic_request == openai_to_anthropic_request(openai_request)
             original_model == Get(openai_request, "model", "")
             stream == Get(openai_request, "stream", FALSE)
         IN  /\ req' = Canon([rs EXCEPT ![p] =
                  [IdleReq EXCEPT !.pc = IF stream THEN "connect" ELSE "api",
                                  !.kind = "chat", !.model = original_model]])
             /\ api_request' = [bearer |-> a, stream |-> stream, gvt |-> gvt,
                                peer |-> req[p].peer, openai |-> openai_request,
                                body |-> anthropic_request]
             /\ response' = NoResponse

\* ---------------------------------------------------------- token manager

\* GET /health, /auth/status: TokenManager.load
Health ==
    /\ Quiescent
    /\ IF load_raises(tm_tokens, token_file)
       THEN /\ response' = Answer("health", "raised", ServerError, "none")
            /\ api_request' = NoRequest
            /\ UNCHANGED tm_tokens
       ELSE /\ tm_tokens' = cache_after_load(tm_tokens, token_file)
            /\ Silent
    /\ UNCHANGED <<now, tm_pkce, token_file, issued, req, failed_no_auth>>

\* The process is stopped and started again: the cache, the PKCE challenge
\* and the requests in flight are gone, the file is kept.
Restart ==
    /\ tm_tokens' = None
    /\ tm_pkce' = 0
    /\ req' = [p \in Reqs |-> IdleReq]
    /\ Silent
    /\ UNCHANGED <<now, token_file, issued, failed_no_auth>>

\* GET /auth/start: TokenManager.start_auth_flow
AuthStart ==
    /\ Quiescent
    /\ \E v \in Generated : tm_pkce' = v
    /\ Silent
    /\ UNCHANGED <<now, tm_tokens, token_file, issued, req, failed_no_auth>>

\* POST /auth/logout: TokenManager.clear
Logout_file_only ==
    /\ Quiescent
    /\ token_file' = AbsentFile
    /\ Silent
    /\ UNCHANGED <<now, tm_tokens, tm_pkce, issued, req, failed_no_auth>>

Logout ==
    /\ Quiescent
    /\ tm_tokens' = None
    /\ token_file' = AbsentFile
    /\ Silent
    /\ UNCHANGED <<now, tm_pkce, issued, req, failed_no_auth>>

\* POST /v1/chat/completions up to its first suspension: get_valid_token's
\* load and expiry test, then the refresh POST, the 401 or the dispatch.
ChatStart(p, raw) ==
    /\ Free(p)
    /\ IF load_raises(tm_tokens, token_file)
       THEN /\ Respond(p, [Answer("chat", "raised", ServerError, "none") EXCEPT
                              !.end = "load_raised"], req)
            /\ UNCHANGED tm_tokens
       ELSE LET tokens == load(tm_tokens, token_file) IN
            /\ tm_tokens' = cache_after_load(tm_tokens, token_file)
            /\ IF tokens = None
               THEN chat_completions(p, raw, "none", NoAccess, "none", req)
               ELSE IF is_expired(tokens, now)
               THEN Continue(p, [IdleReq EXCEPT !.pc = "refresh", !.kind = "chat",
                                                !.tokens = tokens])
               ELSE chat_completions(p, raw, "cached", tokens.access_token, "none",
                                     req)
    /\ UNCHANGED <<now, tm_pkce, token_file, issued, failed_no_auth>>

\* save(tokens) up to and including write_text, in slot p.
SaveWrite(p, tokens, um) ==
    /\ tm_tokens' = tokens
    /\ token_file' = write_text(token_file, tokens, um)
    /\ Continue(p, [req[p] EXCEPT !.new_tokens = tokens, !.pc = "chmod"])

\* The token endpoint answers get_valid_token's refresh.
RefreshResp(p, outcome, e, um) ==
    /\ Quiescent
    /\ req[p].pc = "refresh"
    /\ outcome \in Successes => issued < MaxIssued
    /\ LET res == refresh_tokens(outcome, issued + 1, e, now) IN
       IF res.raised
       THEN /\ Respond(p, [Answer("chat", "raised", ServerError, outcome) EXCEPT
                              !.peer = req[p].peer], req)
            /\ UNCHANGED <<tm_tokens, token_file, issued, failed_no_auth>>
       ELSE IF res.value # None
       THEN /\ SaveWrite(p, res.value, um)
            /\ issued' = issued + 1
            /\ UNCHANGED failed_no_auth
       ELSE \* clear(); return None
            /\ tm_tokens' = None
            /\ token_file' = AbsentFile
            /\ failed_no_auth' = TRUE
            /\ chat_completions(p, FALSE, "none", NoAccess, outcome,
                                NotePeers(req[p].tokens.refresh_token, NoAccess))
            /\ UNCHANGED issued
    /\ UNCHANGED <<now, tm_pkce>>

\* The rest of save (chmod 0o600) and what follows it without suspension.
Chmod(p, raw) ==
    /\ req[p].pc = "chmod"
    /\ token_file' = chmod(token_file, OwnerOnly)
    /\ IF req[p].kind = "chat"
       THEN LET a == req[p].new_tokens.access_token IN
            /\ chat_completions(p, raw, "refreshed", a, "ok",
                                NotePeers(req[p].tokens.refresh_token, a))
            /\ UNCHANGED tm_pkce
       ELSE /\ tm_pkce' = 0
            /\ Respond(p, Answer("callback", "n/a", StatusOK, "ok"), req)
    /\ UNCHANGED <<now, tm_tokens, issued, failed_no_auth>>

\* POST /auth/callback up to its first suspension.  code = FALSE: no code in
\* the body; verifier = 0: none given.
CallbackStart(p, code, verifier) ==
    /\ Free(p)
    /\ LET v == IF verifier # 0 THEN verifier ELSE tm_pkce IN
       IF ~code \/ v = 0
       THEN Respond(p, Answer("callback", "n/a", BadRequest, "none"), req)
       ELSE Continue(p, [IdleReq EXCEPT !.pc = "exchange", !.kind = "callback",
                                        !.verifier = verifier, !.v = v])
    /\ UNCHANGED <<now, tm_tokens, tm_pkce, token_file, issued, failed_no_auth>>

\* The token endpoint answers complete_auth_flow's exchange.
ExchangeResp(p, outcome, e, um) ==
    /\ Quiescent
    /\ req[p].pc = "exchange"
    /\ outcome \in Successes => issued < MaxIssued
    /\ LET res == exchange_code(outcome, issued + 1, e, now) IN
       IF res.raised
       THEN /\ Respond(p, Answer("callback", "n/a", ServerError, outcome), req)
            /\ UNCHANGED <<tm_tokens, token_file, issued, failed_no_auth>>
       ELSE IF res.value # None
       THEN /\ SaveWrite(p, res.value, um)
            /\ issued' = issued + 1
            /\ failed_no_auth' = FALSE
       ELSE /\ Respond(p, Answer("callback", "n/a", BadRequest, outcome), req)
            /\ UNCHANGED <<tm_tokens, token_file, issued, failed_no_auth>>
    /\ UNCHANGED <<now, tm_pkce>>

\* -------------------------------------------------------------- upstream

Upstream == UNCHANGED <<now, tm_tokens, tm_pkce, token_file, issued, failed_no_auth>>

\* _handle_non_streaming: the upstream answers with status s and body: the
\* JSON object of a 200, the text of anything else.
ApiResp(p, s, body) ==
    /\ Quiescent
    /\ req[p].pc = "api"
    /\ Respond(p, IF is_success(s)
                  THEN [Answer("chat", "token", StatusOK, "none") EXCEPT
                           !.upstream = s, !.answered = body,
                           !.json = anthropic_to_openai_response(body, req[p].model)]
                  ELSE [Answer("chat", "token", error_status(s), "none") EXCEPT
                           !.upstream = s, !.detail = body],
               req)
    /\ Upstream

\* _handle_non_streaming: client.post raises (connect, TLS, timeout).
ApiFail(p) ==
    /\ Quiescent
    /\ req[p].pc = "api"
    /\ Respond(p, [Answer("chat", "token", ServerError, "none") EXCEPT !.end = "exception"],
               req)
    /\ Upstream

\* A streaming response: status 200, the SSE items out, and how it ended.
Streamed(out, end, s, body) ==
    [Answer("stream", "token", StatusOK, "none") EXCEPT
        !.out = out, !.end = end, !.upstream = s, !.detail = body]

\* generate: the upstream's status line arrives.
StreamOpen(p, s, body) ==
    /\ Quiescent
    /\ req[p].pc = "connect"
    /\ IF is_success(s)
       THEN Continue(p, [req[p] EXCEPT !.pc = "stream"])
       ELSE Respond(p, Streamed(<<SseData([error |-> body])>>, "error_status", s, body), req)
    /\ Upstream

\* generate: client.stream raises before any status.
StreamFail(p) ==
    /\ Quiescent
    /\ req[p].pc = "connect"
    /\ Respond(p, Streamed(<<>>, "exception", 0, ""), req)
    /\ Upstream

\* generate: one line of the upstream body is read.
ReadLine_shared(p, line) ==
    /\ Quiescent
    /\ req[p].pc = "stream"
    /\ LET others == {q \in Reqs \ {p} : req[q].pc = "stream" /\ req[q].event_type # "unbound"}
           shared == IF others = {} THEN req[p].event_type
                     ELSE req[CHOOSE q \in others : TRUE].event_type
           r == generate_line([req[p] EXCEPT !.event_type = shared], line)
       IN  IF r.pc = "raised"
           THEN Respond(p, [Streamed(r.out, "raised", StatusOK, "") EXCEPT !.read = r.read],
                        req)
           ELSE Continue(p, r)
    /\ Upstream

ReadLine(p, line) ==
    /\ Quiescent
    /\ req[p].pc = "stream"
    /\ LET r == generate_line(req[p], line) IN
       IF r.pc = "raised"
       THEN Respond(p, [Streamed(r.out, "raised", StatusOK, "") EXCEPT !.read = r.read],
                    req)
       ELSE Continue(p, r)
    /\ Upstream

\* Any line, in a body of at most MaxLines lines.
StreamLine(p, line) ==
    /\ req[p].nread < MaxLines
    /\ ReadLine(p, line)

\* The upstream sends well-formed events, at most MaxPairs of them, each an
\* `event:` line, its `data:` line and the blank line that ends it.
LastRead(p) ==
    IF req[p].read = <<>> THEN BlankLine ELSE req[p].read[Len(req[p].read)]

PairEvent(p, pr) ==
    /\ req[p].pc = "stream"
    /\ LastRead(p).kind = "blank"
    /\ req[p].nread < 3 * MaxPairs
    /\ ReadLine(p, EventLine(pr.event))

PairData(p, pr) ==
    /\ req[p].pc = "stream"
    /\ LastRead(p) = EventLine(pr.event)
    /\ ReadLine(p, DataLine(pr.data))

PairEnd(p) ==
    /\ req[p].pc = "stream"
    /\ LastRead(p).kind = "data"
    /\ ReadLine(p, BlankLine)

\* generate: the upstream body ends cleanly; the [DONE] marker.
StreamClose(p) ==
    /\ Quiescent
    /\ req[p].pc = "stream"
    /\ Respond(p, [Streamed(Append(req[p].out, SseDone), "closed", StatusOK, "")
                      EXCEPT !.read = req[p].read], req)
    /\ Upstream

\* generate: aiter_lines raises mid-stream (reset, read timeout).
StreamBreak(p) ==
    /\ Quiescent
    /\ req[p].pc = "stream"
    /\ Respond(p, [Streamed(req[p].out, "exception", StatusOK, "")
                      EXCEPT !.read = req[p].read], req)
    /\ Upstream

\* ------------------------------------------------------- specifications

\* Spec: the token manager under concurrent requests.  Callers complete the
\* OAuth flow with their own verifier, the upstream messages endpoint
\* answers with one error status and body, and its streams carry no lines.
Next ==
    \/ Tick
    \/ Health
    \/ Logout
    \/ \E p \in Reqs, stream \in BOOLEAN : ChatStart(p, PlainRequest(stream))
    \/ \E p \in Reqs, e \in ExpiresIn, um \in Umasks : RefreshResp(p, "ok", e, um)
    \/ \E p \in Reqs, outcome \in TokenOutcomes \ {"ok"} : RefreshResp(p, outcome, 0, 0)
    \/ \E p \in Reqs, stream \in BOOLEAN : Chmod(p, PlainRequest(stream))
    \/ \E p \in Reqs, code \in BOOLEAN, verifier \in {0} \cup Supplied :
         CallbackStart(p, code, verifier)
    \/ \E p \in Reqs, e \in ExpiresIn, um \in Umasks : ExchangeResp(p, "ok", e, um)
    \/ \E p \in Reqs, outcome \in TokenOutcomes \ {"ok"} : ExchangeResp(p, outcome, 0, 0)
    \/ \E p \in Reqs : ApiResp(p, StatusOK, PlainResponse)
    \/ \E p \in Reqs : ApiResp(p, 529, "overloaded")
    \/ \E p \in Reqs : ApiFail(p)
    \/ \E p \in Reqs, s \in {StatusOK, 529} : StreamOpen(p, s, "overloaded")
    \/ \E p \in Reqs : StreamFail(p)
    \/ \E p \in Reqs : StreamClose(p)
    \/ \E p \in Reqs : StreamBreak(p)

Spec == Init /\ [][Next]_vars

\* SpecStream: one authenticated request slot against every upstream answer
\* and every sequence of at most MaxLines lines.
InitStream ==
    /\ Init
    /\ token_file.kind = "tokens"
    /\ token_file.tok.expires_at = 600

NextStream ==
    \/ \E stream \in BOOLEAN : ChatStart(1, PlainRequest(stream))
    \/ ApiResp(1, StatusOK, PlainResponse)
    \/ \E s \in ErrorStatuses, body \in Bodies : ApiResp(1, s, body)
    \/ ApiFail(1)
    \/ \E s \in {StatusOK} \cup ErrorStatuses, body \in Bodies : StreamOpen(1, s, body)
    \/ StreamFail(1)
    \/ \E line \in Lines : StreamLine(1, line)
    \/ StreamClose(1)
    \/ StreamBreak(1)

SpecStream == InitStream /\ [][NextStream]_vars

\* SpecPairs: one streaming session whose upstream answers 200 and sends
\* well-formed events only, then closes.
NextPairs ==
    \/ ChatStart(1, PlainRequest(TRUE))
    \/ StreamOpen(1, StatusOK, "")
    \/ \E pr \in Pairs : PairEvent(1, pr)
    \/ \E pr \in Pairs : PairData(1, pr)
    \/ PairEnd(1)
    \/ StreamClose(1)

SpecPairs == InitStream /\ [][NextPairs]_vars

\* SpecTokens: the token manager serving one request at a time, across
\* restarts, against a token endpoint whose 2xx answers may carry empty
\* strings and any expires_in.
NextTokens ==
    \/ Tick
    \/ Health
    \/ AuthStart
    \/ Logout
    \/ Restart
    \/ ChatStart(1, PlainRequest(FALSE))
    \/ \E outcome \in Successes, e \in AnyExpiresIn, um \in Umasks :
         RefreshResp(1, outcome, e, um)
    \/ \E outcome \in TokenOutcomes \ {"ok"} : RefreshResp(1, outcome, 0, 0)
    \/ Chmod(1, PlainRequest(FALSE))
    \/ \E code \in BOOLEAN, verifier \in {0} \cup Supplied : CallbackStart(1, code, verifier)
    \/ \E outcome \in Successes, e \in AnyExpiresIn, um \in Umasks :
         ExchangeResp(1, outcome, e, um)
    \/ \E outcome \in TokenOutcomes \ {"ok"} : ExchangeResp(1, outcome, 0, 0)
    \/ ApiResp(1, StatusOK, PlainResponse)

SpecTokens == Init /\ [][NextTokens]_vars

\* SpecCorrupt: the same, started on a token file that does not parse.
InitCorrupt ==
    /\ now = 0
    /\ tm_tokens = None
    /\ tm_pkce = 0
    /\ token_file \in CorruptFiles
    /\ issued = 1
    /\ req = [p \in Reqs |-> IdleReq]
    /\ api_request = NoRequest
    /\ response = NoResponse
    /\ failed_no_auth = FALSE

SpecCorrupt == InitCorrupt /\ [][NextTokens]_vars

\* SpecManager: the token manager alone under concurrent requests: every
\* endpoint that reaches it, start_auth_flow included, with completions that
\* do not stream and an upstream that answers 200.
NextManager ==
    \/ Tick
    \/ Health
    \/ AuthStart
    \/ Logout
    \/ \E p \in Reqs : ChatStart(p, PlainRequest(FALSE))
    \/ \E p \in Reqs, e \in ExpiresIn, um \in Umasks : RefreshResp(p, "ok", e, um)
    \/ \E p \in Reqs, outcome \in TokenOutcomes \ {"ok"} : RefreshResp(p, outcome, 0, 0)
    \/ \E p \in Reqs : Chmod(p, PlainRequest(FALSE))
    \/ \E p \in Reqs, code \in BOOLEAN, verifier \in {0} \cup Supplied :
         CallbackStart(p, code, verifier)
    \/ \E p \in Reqs, e \in ExpiresIn, um \in Umasks : ExchangeResp(p, "ok", e, um)
    \/ \E p \in Reqs, outcome \in TokenOutcomes \ {"ok"} : ExchangeResp(p, outcome, 0, 0)
    \/ \E p \in Reqs : ApiResp(p, StatusOK, PlainResponse)

SpecManager == Init /\ [][NextManager]_vars

\* SpecSessions: two streaming sessions at once, for two different models,
\* their line reads interleaved in every way.
Sessions == {1, 2}

SessionRequests ==
    {PlainRequest(TRUE),
     JsonBody([model |-> "claude-opus",
               messages |-> <<[role |-> "user", content |-> Str(<<"hi">>)]>>,
               stream |-> TRUE])}

SessionLines ==
    {EventLine("content_block_delta"), EventLine("message_stop"),
     DataLine(TextDelta("Hel"))}

NextSessions ==
    \/ \E p \in Sessions, raw \in SessionRequests : ChatStart(p, raw)
    \/ \E p \in Sessions : StreamOpen(p, StatusOK, "")
    \/ \E p \in Sessions, line \in SessionLines : StreamLine(p, line)
    \/ \E p \in Sessions : StreamClose(p)

SpecSessions == InitStream /\ [][NextSessions]_vars

\* SpecTranslate: one authenticated caller whose completion requests vary in
\* their messages, tools and model, and an upstream whose answers vary in
\* their content blocks and stop_reason, on both paths.
ToolCall ==
    [id |-> "call_1", type |-> "function",
     function |-> [name |-> "f", arguments |-> "{}"]]

Messages ==
    {[role |-> "system", content |-> Str(<<>>)],
     [role |-> "system", content |-> Str(<<"A">>)],
     [role |-> "system", content |-> Str(<<"B">>)],
     [role |-> "user", content |-> Str(<<"hi">>)],
     [role |-> "assistant", content |-> None, tool_calls |-> <<ToolCall>>],
     [role |-> "tool", tool_call_id |-> "call_1", content |-> Str(<<"42">>)],
     [role |-> "developer", content |-> Str(<<"D">>)]}

MessageLists == UNION {[1..n -> Messages] : n \in 0..MaxMsgs}

OneUser == <<[role |-> "user", content |-> Str(<<"hi">>)]>>

FunctionTool ==
    [type |-> "function",
     function |-> [name |-> "f", description |-> "d", parameters |-> [type |-> "object"]]]
RetrievalTool == [type |-> "retrieval"]

ToolLists ==
    {List(<<>>), List(<<FunctionTool>>), List(<<RetrievalTool>>),
     List(<<FunctionTool, RetrievalTool>>)}

\* Keys of the alias table, its values, and names it does not know.
ModelNames ==
    DOMAIN MODEL_MAP \cup {MODEL_MAP[k] : k \in DOMAIN MODEL_MAP} \cup {"gpt-4", ""}

Completions ==
    {JsonBody([model |-> Model, messages |-> ms]) : ms \in MessageLists}
    \cup {JsonBody([model |-> Model, messages |-> OneUser, tools |-> t]) : t \in ToolLists}
    \cup {JsonBody([model |-> mn, messages |-> OneUser]) : mn \in ModelNames}
    \cup {JsonBody([model |-> Model, messages |-> OneUser, max_tokens |-> 16,
                    temperature |-> 1, top_p |-> 1, stop |-> stop, stream |-> FALSE]) :
             stop \in {None, Str(<<"END">>), List(<<Str(<<"END">>)>>)}}
    \cup {JsonBody([messages |-> OneUser]), JsonBody([model |-> Model]), BadJson,
          PlainRequest(TRUE)}

StopReasons ==
    {"end_turn", "max_tokens", "stop_sequence", "tool_use", "pause_turn", "refusal",
     "unheard_of"}

ContentBlocks ==
    {<<>>,
     <<[type |-> "text", text |-> Str(<<"Hel">>)], [type |-> "text", text |-> Str(<<"lo">>)]>>,
     <<[type |-> "tool_use", id |-> "toolu_1", name |-> "f", input |-> [x |-> 1]]>>,
     <<[type |-> "text", text |-> Str(<<"Hel">>)], [type |-> "tool_use", name |-> "f"],
       [type |-> "thinking"]>>}

Answers ==
    {[id |-> "msg_1", content |-> c, stop_reason |-> r,
      usage |-> [input_tokens |-> 1, output_tokens |-> 2]] :
        c \in ContentBlocks, r \in StopReasons}
    \cup {[content |-> c] : c \in ContentBlocks}

\* message_delta events, one per stop_reason, and one without.
StopPairs ==
    {PairOf("message_delta", [delta |-> [stop_reason |-> r]]) : r \in StopReasons}
    \cup {PairOf("message_delta", [delta |-> EmptyObj])}

NextTranslate ==
    \/ \E raw \in Completions : ChatStart(1, raw)
    \/ \E answer \in Answers : ApiResp(1, StatusOK, answer)
    \/ StreamOpen(1, StatusOK, "")
    \/ \E pr \in StopPairs : PairEvent(1, pr)
    \/ \E pr \in StopPairs : PairData(1, pr)
    \/ PairEnd(1)
    \/ StreamClose(1)

SpecTranslate == InitStream /\ [][NextTranslate]_vars

\* SpecMessage: one streaming session whose upstream sends one whole
\* message: message_start, at most MaxPairs content events, a message_delta
\* with a stop_reason, message_stop, then closes.
ContentPairs ==
    {PairOf("content_block_start",
            [index |-> 1, content_block |->
               [type |-> "tool_use", id |-> "toolu_1", name |-> "get_weather"]]),
     PairOf("content_block_delta", TextDelta("Hel")),
     PairOf("content_block_delta",
            [index |-> 1, delta |-> [type |-> "input_json_delta", partial_json |-> "{"]])}

\* The lines of a sequence of events.
RECURSIVE EventLines(_)
EventLines(pairs) ==
    IF pairs = <<>> THEN <<>>
    ELSE <<EventLine(Head(pairs).event), DataLine(Head(pairs).data), BlankLine>>
         \o EventLines(Tail(pairs))

MessageBodies ==
    {EventLines(<<PairOf("message_start", [message |-> [id |-> "msg_1"]])>>
                \o content
                \o <<PairOf("message_delta", [delta |-> [stop_reason |-> r]]),
                     PairOf("message_stop", [type |-> "message_stop"])>>) :
       content \in UNION {[1..n -> ContentPairs] : n \in 0..MaxPairs},
       r \in StopReasons}

\* The next line of a message.
MessageLine(p) ==
    \E body \in MessageBodies :
       LET n == Len(req[p].read) IN
       /\ req[p].pc = "stream"
       /\ n < Len(body)
       /\ SubSeq(body, 1, n) = req[p].read
       /\ ReadLine(p, body[n + 1])

\* The body ends after the message's last line.
MessageClose(p) ==
    /\ req[p].read \in MessageBodies
    /\ StreamClose(p)

NextMessage ==
    \/ ChatStart(1, PlainRequest(TRUE))
    \/ StreamOpen(1, StatusOK, "")
    \/ MessageLine(1)
    \/ MessageClose(1)

SpecMessage == InitStream /\ [][NextMessage]_vars
\* --------------------------------------------------------------- claims

\* The slots suspended in the refresh POST of get_valid_token.
Refreshing(rs) == {p \in Reqs : rs[p].pc = "refresh"}

\* This step sends a refresh to the token endpoint.
RefreshIssued == Cardinality(Refreshing(req')) = Cardinality(Refreshing(req)) + 1

\* The token endpoint's answers that are failures.
Failures == TokenOutcomes \ {"ok"}

\* C1: single-flight refresh.  However the calls of get_valid_token
\* interleave, the token endpoint never has two refresh calls for the same
\* stored token set: at most one call per refresh token is in flight.
C1_SingleFlightRefresh ==
    \A p, q \in Refreshing(req) :
       req[p].tokens.refresh_token = req[q].tokens.refresh_token => p = q

\* C2: uniform outcome of a concurrent refresh.  Whatever a call of
\* get_valid_token returns after its refresh is what every call that
\* refreshed the same token set concurrently has returned before it: the
\* same access token, or none for all.
C2_UniformOutcome ==
    /\ (api_request # NoRequest /\ api_request.peer # Unset)
          => api_request.bearer = api_request.peer
    /\ (response.kind = "chat" /\ response.gvt = "none" /\ response.peer # Unset)
          => response.peer = NoAccess

\* C3: every streaming response that reached the upstream call ends with
\* the item `data: [DONE]` and its blank line, whether the upstream closed
\* cleanly, answered a non-success status, or failed.
C3_StreamEndsWithDone ==
    response.kind = "stream"
       => /\ Len(response.out) > 0
          /\ response.out[Len(response.out)] = SseDone

\* C4: expiry buffer.  A call of get_valid_token sends a refresh if and only
\* if a token set is loaded and now >= expires_at - 60.  Otherwise, with a
\* token set loaded, it returns the stored access token, sends nothing to the
\* token endpoint, leaves the file as it is and leaves the cache holding the
\* token set it held or loaded; with none loaded it returns none.
C4_ExpiryBuffer ==
    [][LET tokens == load(tm_tokens, token_file)
           due == IF tokens = None THEN FALSE ELSE now >= tokens.expires_at - 60
       IN /\ RefreshIssued => due
          /\ api_request'.gvt = "cached" =>
                /\ tokens # None
                /\ ~due
                /\ ~RefreshIssued
                /\ api_request'.bearer = tokens.access_token
                /\ token_file' = token_file
                /\ tm_tokens' = tokens
          /\ (response'.kind = "chat" /\ response'.gvt = "none"
                /\ response'.outcome = "none") =>
                /\ tokens = None
                /\ ~RefreshIssued
                /\ token_file' = token_file
      ]_vars

\* C4 happens: a refresh in flight that was sent at the very instant
\* now = expires_at - 60.
C4_Witness ==
    \E p \in Refreshing(req) : req[p].tokens.expires_at - 60 = now

\* C5: outcome of a refresh in get_valid_token.  On success the new token
\* set is in the cache and in the file and its access token is returned; on
\* failure the cache is empty, the file is gone and none is returned; and
\* from a failed refresh until the next authentication every completion
\* request is answered 401 (none is sent upstream with the stored token, none
\* starts a refresh).
C5_RefreshOutcome ==
    [][/\ api_request'.gvt = "refreshed" =>
             /\ tm_tokens' # None
             /\ tm_tokens'.access_token = api_request'.bearer
             /\ token_file'.kind = "tokens"
             /\ token_file'.tok = tm_tokens'
       /\ (response'.kind = "chat" /\ response'.gvt = "none"
             /\ response'.outcome # "none") =>
             /\ tm_tokens' = None
             /\ token_file'.kind = "absent"
       /\ failed_no_auth => (api_request'.gvt # "cached" /\ ~RefreshIssued)
      ]_vars

\* C6: every failure of the token endpoint (non-2xx, transport error, field
\* missing) reaches the caller as the failure value: a refresh that failed
\* makes get_valid_token return none with the stored tokens cleared, and an
\* exchange that failed makes the callback answer 400.
C6_FailureIsReported ==
    /\ (response.kind = "chat" /\ response.outcome \in Failures) =>
          /\ response.gvt = "none"
          /\ tm_tokens = None
          /\ token_file.kind = "absent"
    /\ (response.kind = "callback" /\ response.outcome \in Failures) =>
          response.status = BadRequest

\* C7: owner-only token file.  In every state, the states inside save
\* included, a token file holding credentials grants nothing to group or
\* others.
C7_OwnerOnlyTokenFile ==
    token_file.kind = "tokens" => token_file.mode % 64 = 0

\* C8: unauthenticated completions are rejected before any upstream call.
\* No request goes to the messages endpoint from a handler whose
\* get_valid_token yielded none, every request sent carries a token, and the
\* handler whose get_valid_token yielded none answers 401.
C8_UnauthenticatedRejected ==
    /\ api_request.gvt # "none"
    /\ api_request # NoRequest => ~(api_request.bearer = NoAccess \/ api_request.bearer = 0)
    /\ (response.kind = "chat" /\ response.gvt = "none") =>
          /\ response.status = 401
          /\ api_request = NoRequest

\* C8 happens: a completion answered 401 after its refresh was refused.
C8_Witness ==
    /\ response.kind = "chat"
    /\ response.gvt = "none"
    /\ response.outcome = "non2xx"
    /\ response.status = 401

\* C9: upstream rejection is surfaced with the upstream status.  A
\* completion, streaming or not, whose upstream answered a non-2xx status S
\* carries the status S and the upstream body.
C9_UpstreamStatusSurfaced ==
    (response.upstream # 0 /\ ~(response.upstream >= 200 /\ response.upstream < 300))
       => /\ response.status = response.upstream
          /\ response.detail \in Bodies

\* C10: streaming error envelope.  When the upstream answers a non-success
\* status before streaming, the session's output is exactly the data chunk
\* with the `error` field holding the upstream body and then `data: [DONE]`.
C10_StreamingErrorEnvelope ==
    (response.kind = "stream" /\ response.end = "error_status")
       => response.out = <<SseData([error |-> response.detail]), SseDone>>

\* The event kinds that have a downstream chunk.
Mapped(event, data) ==
    \/ event = "message_start"
    \/ event = "message_stop"
    \/ /\ event = "content_block_start"
       /\ "content_block" \in DOMAIN data
       /\ Get(data.content_block, "type", "") = "tool_use"
    \/ /\ event = "content_block_delta"
       /\ "delta" \in DOMAIN data
       /\ Get(data.delta, "type", "") \in {"text_delta", "input_json_delta"}
    \/ /\ event = "message_delta"
       /\ "delta" \in DOMAIN data
       /\ "stop_reason" \in DOMAIN data.delta

\* Line n of lines is the data line of a well-formed pair.
IsPair(lines, n) ==
    /\ n > 1
    /\ lines[n].kind = "data" /\ lines[n].valid
    /\ lines[n - 1].kind = "event"

IsTextPair(lines, n) ==
    /\ IsPair(lines, n)
    /\ lines[n - 1].name = "content_block_delta"
    /\ "delta" \in DOMAIN lines[n].json
    /\ Get(lines[n].json.delta, "type", "") = "text_delta"

\* The chunks of the mapped pairs among the first n lines, in their order.
RECURSIVE ExpectedChunks(_, _)
ExpectedChunks(lines, n) ==
    IF n = 0 THEN <<>>
    ELSE IF IsPair(lines, n) /\ Mapped(lines[n - 1].name, lines[n].json)
    THEN Append(ExpectedChunks(lines, n - 1),
                SseData(anthropic_stream_to_openai_stream(lines[n - 1].name,
                                                          lines[n].json, Model)))
    ELSE ExpectedChunks(lines, n - 1)

\* The texts of the text_delta pairs among the first n lines, in their order.
RECURSIVE ExpectedTexts(_, _)
ExpectedTexts(lines, n) ==
    IF n = 0 THEN <<>>
    ELSE IF IsTextPair(lines, n)
    THEN Append(ExpectedTexts(lines, n - 1), lines[n].json.delta.text)
    ELSE ExpectedTexts(lines, n - 1)

\* The delta.content of the content chunks among the first n items.
RECURSIVE Contents(_, _)
Contents(out, n) ==
    IF n = 0 THEN <<>>
    ELSE LET item == out[n] IN
         IF /\ item.sse = "data"
            /\ "choices" \in DOMAIN item.json
            /\ DOMAIN item.json.choices[1].delta = {"content"}
         THEN Append(Contents(out, n - 1), item.json.choices[1].delta.content)
         ELSE Contents(out, n - 1)

Transcoded(lines, out) ==
    /\ out = ExpectedChunks(lines, Len(lines))
    /\ None \notin {out[i].json : i \in 1..Len(out)}
    /\ Contents(out, Len(out)) = ExpectedTexts(lines, Len(lines))

\* C11: order-preserving one-to-one transcoding.  Of an upstream body of
\* well-formed events, the chunks emitted so far, and at the end the chunks
\* before the sentinel, are the translations of exactly the mapped events,
\* one each and in the order received; the text_delta chunks carry the delta
\* texts.
C11_OrderPreservingTranscoding ==
    /\ \A p \in Reqs : req[p].pc = "stream" => Transcoded(req[p].read, req[p].out)
    /\ (response.kind = "stream" /\ response.end = "closed") =>
          /\ Len(response.out) > 0
          /\ response.out[Len(response.out)] = SseDone
          /\ Transcoded(response.read, SubSeq(response.out, 1, Len(response.out) - 1))

\* C11 happens: a body of two mapped events with two different chunks, a
\* text chunk among them, closed.
C11_Witness ==
    /\ response.kind = "stream" /\ response.end = "closed"
    /\ Len(response.out) = 3
    /\ response.out[1] # response.out[2]
    /\ Contents(response.out, 2) # <<>>

\* A data line that is not valid JSON.
Malformed(line) == line.kind = "data" /\ ~line.valid

WellFormed(line) == ~Malformed(line)

\* generate's locals after the first n of lines (as far as it gets).
RECURSIVE Generate(_, _)
Generate(lines, n) ==
    IF n = 0 THEN [IdleReq EXCEPT !.pc = "stream", !.model = Model]
    ELSE LET r == Generate(lines, n - 1) IN
         IF r.pc = "raised" THEN r ELSE generate_line(r, lines[n])

\* generate on lines with the malformed ones taken out.
WithoutMalformed(lines) ==
    LET clean == SelectSeq(lines, WellFormed) IN Generate(clean, Len(clean))

\* C12: a malformed data line does not abort the stream.  Malformed lines
\* give no chunk, the chunks are those of the same body without the
\* malformed lines, no malformed line ends the session, and a body that
\* closes ends with the sentinel.
C12_MalformedLineSkipped ==
    /\ \A p \in Reqs : req[p].pc = "stream" =>
          /\ req[p].out = WithoutMalformed(req[p].read).out
          /\ WithoutMalformed(req[p].read).pc = "stream"
    /\ (response.kind = "stream" /\ response.end = "raised") =>
          /\ ~Malformed(response.read[Len(response.read)])
          /\ response.out = WithoutMalformed(response.read).out
          /\ WithoutMalformed(response.read).pc = "raised"
    /\ (response.kind = "stream" /\ response.end = "closed") =>
          response.out = Append(WithoutMalformed(response.read).out, SseDone)

\* C12 happens: a closed body with a malformed line and, after it, an event
\* that was translated.
C12_Witness ==
    /\ response.kind = "stream" /\ response.end = "closed"
    /\ Len(response.read) = 3
    /\ Malformed(response.read[2])
    /\ IsTextPair(<<response.read[1], response.read[3]>>, 2)
    /\ Len(response.out) = 2

\* The token sets held: the cache, and what the file parses to.
Held == {tm_tokens, parse_file(token_file)} \ {None}

\* C13: token-set validity.  Every token set held in the cache or in the
\* file has a non-empty access_token and a non-empty refresh_token, and a
\* token set just made by exchange_code or refresh_tokens (save is still
\* under way) has expires_at after the current time.
C13_TokenSetValid ==
    /\ \A t \in Held : t.access_token # 0 /\ t.refresh_token # 0
    /\ \A p \in Reqs : req[p].pc = "chmod" => req[p].new_tokens.expires_at > now

\* C14: a corrupt token file means "no tokens".  Started on a token file
\* that does not parse, neither is_authenticated nor get_valid_token raises,
\* and after a complete_auth_flow that succeeded load returns the token set
\* it stored.
C14_CorruptFileMeansNoTokens ==
    /\ ~(response.kind = "health" /\ response.gvt = "raised")
    /\ ~(response.kind = "chat" /\ response.end = "load_raised")
    /\ (response.kind = "callback" /\ response.status = StatusOK) =>
          /\ load(tm_tokens, token_file) # None
          /\ load(tm_tokens, token_file) = token_file.saved

\* C15: the token file is the source of truth across restarts.  What a
\* process with an empty cache loads is, in every state, the token set last
\* persisted, or none after a clear; and right after save's write it is the
\* token set given to save (the file was written by save or is one a
\* previous run left).
C15_FileIsSourceOfTruth ==
    /\ load(None, token_file) = token_file.saved
    /\ token_file.kind = "absent" => load(None, token_file) = None
    /\ \A p \in Reqs : req[p].pc = "chmod" => load(None, token_file) = req[p].new_tokens

\* C15 happens: after a restart (empty cache, no request in flight) the
\* file holds a token set persisted during the run, and load returns it.
C15_Witness ==
    /\ tm_tokens = None
    /\ \A p \in Reqs : req[p].pc = "idle"
    /\ token_file.kind = "tokens"
    /\ token_file.saved # None
    /\ token_file.saved.access_token = 2
    /\ load(tm_tokens, token_file) = token_file.saved

\* The last step sent a request to the upstream messages endpoint.
Sent == api_request.bearer # NoAccess

Range(seq) == {seq[i] : i \in DOMAIN seq}

\* An upstream message carries the tool call: as tool_calls, or as a
\* tool_use content block of that id.
CarriesCall(msg, call) ==
    \/ call \in Range(Get(msg, "tool_calls", <<>>))
    \/ /\ "list" \in DOMAIN msg.content
       /\ \E block \in Range(msg.content.list) :
            Get(block, "type", "") = "tool_use" /\ Get(block, "id", "") = call.id

\* An upstream message carries the tool message's tool_call_id and content.
CarriesResult(msg, tool) ==
    /\ "list" \in DOMAIN msg.content
    /\ \E block \in Range(msg.content.list) :
         /\ Get(block, "tool_use_id", "") = tool.tool_call_id
         /\ Get(block, "content", None) = tool.content

\* C16: tool-call information is never dropped silently by the request
\* translator.  No request goes upstream for a downstream request with a
\* tools entry whose type is not `function` (the translation aborts), and
\* every tool call of an assistant message and every tool message's
\* tool_call_id and content are in the upstream payload.
C16_ToolInformationKept ==
    Sent =>
      LET tools == Get(api_request.openai, "tools", List(<<>>)).list
          messages == Get(api_request.openai, "messages", <<>>)
          upstream == Range(api_request.body.messages)
      IN  /\ \A tool \in Range(tools) : Get(tool, "type", "") = "function"
          /\ \A msg \in Range(messages) :
               /\ Get(msg, "role", "") = "assistant" =>
                    \A call \in Range(Get(msg, "tool_calls", <<>>)) :
                       \E up \in upstream : CarriesCall(up, call)
               /\ Get(msg, "role", "") = "tool" =>
                    \E up \in upstream : CarriesResult(up, msg)

IsSystem(msg) == Get(msg, "role", "") = "system"
IsKept(msg) == Get(msg, "role", "") \in {"user", "assistant", "tool"}

\* The contents of msgs[n..] joined with one "\n\n" between each
\* consecutive pair.
RECURSIVE Joined(_, _)
Joined(msgs, n) ==
    IF n = Len(msgs)
    THEN msgs[n].content
    ELSE Concat(msgs[n].content, Concat(Sep, Joined(msgs, n + 1)))

\* The upstream message up is the translation of the downstream message msg.
Renders(up, msg) ==
    IF msg.role = "tool"
    THEN up.role = "user" /\ CarriesResult(up, msg)
    ELSE up.role = msg.role /\ up.content = msg.content

\* C17: system lift.  The upstream `system` field is the contents of the
\* system messages joined in their order with exactly one "\n\n" between
\* each consecutive pair, the empty string included (an absent field counts
\* as the empty string); the upstream messages hold no system message, and
\* are the user, assistant and tool messages in their order, every other
\* role dropped.
C17_SystemLift ==
    Sent =>
      LET messages == Get(api_request.openai, "messages", <<>>)
          systems == SelectSeq(messages, IsSystem)
          kept == SelectSeq(messages, IsKept)
          upstream == api_request.body.messages
      IN  /\ IF systems = <<>>
             THEN "system" \notin DOMAIN api_request.body
             ELSE Get(api_request.body, "system", Str(<<>>)) = Joined(systems, 1)
          /\ \A up \in Range(upstream) : up.role # "system"
          /\ Len(upstream) = Len(kept)
          /\ \A i \in DOMAIN kept : Renders(upstream[i], kept[i])

\* The claimed total function from upstream stop_reason to finish_reason.
ClaimedFinish(r) ==
    CASE r = "end_turn" -> "stop"
      [] r = "max_tokens" -> "length"
      [] r = "stop_sequence" -> "stop"
      [] r = "tool_use" -> "tool_calls"
      [] OTHER -> "stop"

\* Line n of lines is the data line of a message_delta event with a
\* stop_reason.
IsStopPair(lines, n) ==
    /\ IsPair(lines, n)
    /\ lines[n - 1].name = "message_delta"
    /\ "delta" \in DOMAIN lines[n].json
    /\ "stop_reason" \in DOMAIN lines[n].json.delta

\* ClaimedFinish of the stop_reason of each such event among the first n
\* lines, in their order.
RECURSIVE ExpectedFinishes(_, _)
ExpectedFinishes(lines, n) ==
    IF n = 0 THEN <<>>
    ELSE IF IsStopPair(lines, n)
    THEN Append(ExpectedFinishes(lines, n - 1),
                ClaimedFinish(lines[n].json.delta.stop_reason))
    ELSE ExpectedFinishes(lines, n - 1)

\* The finish_reason of the chunks among the first n items that have one.
RECURSIVE Finishes(_, _)
Finishes(out, n) ==
    IF n = 0 THEN <<>>
    ELSE LET item == out[n] IN
         IF /\ item.sse = "data"
            /\ "choices" \in DOMAIN item.json
            /\ item.json.choices[1].finish_reason # "null"
         THEN Append(Finishes(out, n - 1), item.json.choices[1].finish_reason)
         ELSE Finishes(out, n - 1)

\* C18: the finish-reason mapping is one total function on both paths.  A
\* non-streaming completion made from an upstream answer with stop_reason r
\* has finish_reason f(r), and the chunks of a stream whose events are
\* message_delta events have, one per event with a stop_reason r and in
\* order, finish_reason f(r); f is end_turn -> stop, max_tokens -> length,
\* stop_sequence -> stop, tool_use -> tool_calls, anything else -> stop.
C18_FinishReasonMapping ==
    /\ (response.kind = "chat" /\ response.status = StatusOK
        /\ "stop_reason" \in DOMAIN response.answered) =>
          response.json.choices[1].finish_reason
            = ClaimedFinish(response.answered.stop_reason)
    /\ \A p \in Reqs :
         req[p].pc = "stream" =>
           Finishes(req[p].out, Len(req[p].out))
             = ExpectedFinishes(req[p].read, Len(req[p].read))
    /\ (response.kind = "stream" /\ response.end = "closed") =>
          Finishes(response.out, Len(response.out))
            = ExpectedFinishes(response.read, Len(response.read))

\* C18 happens: a stream of two message_delta events, one with a stop_reason
\* the table names and one with a stop_reason it does not, closed after two
\* chunks with different finish reasons.
C18_Witness ==
    /\ response.kind = "stream" /\ response.end = "closed"
    /\ \E i, j \in DOMAIN response.read :
         /\ IsStopPair(response.read, i) /\ IsStopPair(response.read, j)
         /\ response.read[i].json.delta.stop_reason = "refusal"
         /\ response.read[j].json.delta.stop_reason = "max_tokens"
    /\ Finishes(response.out, Len(response.out)) \in {<<"stop", "length">>, <<"length", "stop">>}

\* C19: model alias resolution is idempotent.  For every name, a key of the
\* alias table, a value of it or an unknown one, resolving twice is
\* resolving once; every value of the table resolves to itself, an unknown
\* name to itself; and the model of every request sent upstream is the
\* resolution of the downstream model and resolves to itself.
C19_AliasResolutionIdempotent ==
    /\ \A mn \in ModelNames : translate_model(translate_model(mn)) = translate_model(mn)
    /\ \A k \in DOMAIN MODEL_MAP : translate_model(MODEL_MAP[k]) = MODEL_MAP[k]
    /\ \A mn \in ModelNames \ DOMAIN MODEL_MAP : translate_model(mn) = mn
    /\ Sent =>
         /\ api_request.body.model = translate_model(Get(api_request.openai, "model", ""))
         /\ translate_model(api_request.body.model) = api_request.body.model

\* C19 happens: a request for an alias went upstream under another name,
\* one that is not a key of the table.
C19_Witness ==
    /\ Sent
    /\ "model" \in DOMAIN api_request.openai
    /\ api_request.openai.model \in DOMAIN MODEL_MAP
    /\ api_request.body.model # api_request.openai.model
    /\ api_request.body.model \notin DOMAIN MODEL_MAP

\* C20: a malformed downstream completion request is answered 400.  For an
\* authenticated caller, a body that is not valid JSON is answered 400, and
\* no request goes upstream for a body that lacks model or messages.
C20_MalformedRequestRejected ==
    /\ (response.kind = "chat" /\ response.end = "json_raised") =>
          response.status = BadRequest
    /\ Sent => {"model", "messages"} \subseteq DOMAIN api_request.openai

\* The 502-class statuses: 502, 503 and 504.
GatewayErrors == {502, 503, 504}

\* C21: an upstream transport failure is answered with a 502-class error.
\* The non-streaming completion whose upstream call failed before any
\* status (reset, DNS, TLS, timeout) is answered with a 502-class status,
\* and the step leaves the cached and the stored token set as they were.
C21_TransportFailureIs502 ==
    [][(response'.kind = "chat" /\ response'.end = "exception") =>
          /\ response'.status \in GatewayErrors
          /\ tm_tokens' = tm_tokens
          /\ token_file' = token_file
      ]_vars

\* The token set the file encodes, None if there is none.
FileTokens == parse_file(token_file)

\* This step is save's write_text inside the handler of the given kind
\* ("chat": get_valid_token after a refresh that succeeded; "callback":
\* complete_auth_flow after an exchange that succeeded).
SavedBy(kind) ==
    /\ \A q \in Reqs : req[q].pc # "chmod"
    /\ \E p \in Reqs : req'[p].pc = "chmod" /\ req'[p].kind = kind

\* This step is the clear() of a refresh that failed in get_valid_token.
RefreshFailed ==
    response'.kind = "chat" /\ response'.gvt = "none" /\ response'.outcome \in Failures

\* This step is the clear() of POST /auth/logout.
LoggedOut ==
    /\ req' = req /\ response' = NoResponse
    /\ tm_tokens' = None /\ token_file' = AbsentFile

\* The cached or the persisted token set is not, after the step, what it
\* was (a load that fills the cache from the file changes neither).
HeldChanged ==
    \/ tm_tokens # None /\ tm_tokens' # tm_tokens
    \/ FileTokens # None /\ FileTokens' # FileTokens

HeldRemoved ==
    \/ tm_tokens # None /\ tm_tokens' = None
    \/ FileTokens # None /\ FileTokens' = None

\* A save replaces the token set as a whole, in the cache and in the file.
WholeReplacement ==
    \A p \in Reqs :
       (req'[p].pc = "chmod" /\ \A q \in Reqs : req[q].pc # "chmod") =>
          /\ tm_tokens' = req'[p].new_tokens
          /\ FileTokens' = req'[p].new_tokens

\* C22 as stated: a held token set is changed only by a refresh that
\* succeeded (replaced as a whole) and removed only by clear() or by a
\* refresh that failed; every other operation, complete_auth_flow included,
\* leaves the cached and the persisted token set unchanged.
C22_ChangedOnlyByRefresh ==
    [][/\ HeldChanged => (SavedBy("chat") \/ RefreshFailed \/ LoggedOut)
       /\ HeldRemoved => (RefreshFailed \/ LoggedOut)
       /\ WholeReplacement
      ]_vars

\* C22, amended: token lifecycle.  A held token set is changed only by a
\* save (a refresh or a code exchange that succeeded; replaced as a whole)
\* and removed only by clear() or by a refresh that failed; load,
\* is_authenticated, start_auth_flow, a complete_auth_flow that failed,
\* get_valid_token on a token set not expired and the completion itself
\* leave the cached and the persisted token set unchanged.
C22_TokenLifecycle ==
    [][/\ HeldChanged =>
             (SavedBy("chat") \/ SavedBy("callback") \/ RefreshFailed \/ LoggedOut)
       /\ HeldRemoved => (RefreshFailed \/ LoggedOut)
       /\ WholeReplacement
      ]_vars

\* C22 happens: a refresh that succeeded has just replaced the token set it
\* refreshed, in the cache and in the file.
C22_Witness ==
    \E p \in Reqs :
       /\ req[p].pc = "chmod" /\ req[p].kind = "chat"
       /\ req[p].new_tokens # req[p].tokens
       /\ tm_tokens = req[p].new_tokens
       /\ FileTokens = req[p].new_tokens

\* The slots of rs that are r.
Count(rs, r) == Cardinality({q \in Reqs : rs[q] = r})

\* The slots this step has put in the exchange POST of complete_auth_flow.
Exchanging == {p \in Reqs : req'[p].pc = "exchange" /\ Count(req', req'[p]) > Count(req, req'[p])}

\* C23: complete_auth_flow(code, verifier?).  The exchange is sent with the
\* supplied verifier when one is given and otherwise with the one
\* start_auth_flow cached, and is not sent with neither; an exchange that
\* succeeded has saved the token set and emptied the PKCE cache when the
\* callback answers; an exchange that failed (non-2xx, transport error,
\* field missing) is answered 400 and leaves the PKCE cache and the stored
\* token set unchanged.
C23_CompleteAuthFlow ==
    [][/\ \A p \in Exchanging :
             /\ req'[p].v # 0
             /\ req'[p].v = IF req'[p].verifier # 0 THEN req'[p].verifier ELSE tm_pkce
       /\ (response'.kind = "callback" /\ response'.status = StatusOK) =>
             /\ tm_pkce' = 0
             /\ tm_tokens' # None
             /\ FileTokens' = tm_tokens'
       /\ (response'.kind = "callback" /\ response'.outcome \in Failures) =>
             /\ response'.status = BadRequest
             /\ tm_pkce' = tm_pkce
             /\ tm_tokens' = tm_tokens
             /\ token_file' = token_file
      ]_vars

\* C24: event/data pairing in the transcoder.  The chunks of a session are
\* those of the data lines that directly follow an `event:` line of their
\* own, each translated under that line's name and each name used once: a
\* data line before any event line, or a second data line after one event
\* line, gives no chunk, and no such line ends the session.
C24_EventDataPairing ==
    /\ \A p \in Reqs :
         req[p].pc = "stream" => req[p].out = ExpectedChunks(req[p].read, Len(req[p].read))
    /\ response.kind = "stream" => response.end # "raised"
    /\ (response.kind = "stream" /\ response.end = "closed") =>
          response.out = Append(ExpectedChunks(response.read, Len(response.read)), SseDone)

\* messages with the adjacent messages i and i + 1 replaced by one system
\* message whose content is theirs joined with "\n\n".
Combined(messages, i) ==
    SubSeq(messages, 1, i - 1)
    \o <<[role |-> "system",
          content |-> Concat(messages[i].content, Concat(Sep, messages[i + 1].content))]>>
    \o SubSeq(messages, i + 2, Len(messages))

\* C25: system-message concatenation is associative over adjacency.  The
\* payload sent for a request with two adjacent system messages a and b is
\* the payload of the same request with the two replaced by one system
\* message a + "\n\n" + b, the empty string included.
C25_AdjacentSystemMessages ==
    Sent =>
      LET openai_request == api_request.openai
          messages == Get(openai_request, "messages", <<>>)
      IN  \A i \in 1..(Len(messages) - 1) :
             (IsSystem(messages[i]) /\ IsSystem(messages[i + 1])) =>
                openai_to_anthropic_request(
                    With(openai_request, "messages", Combined(messages, i)))
                  = api_request.body

\* generate's locals after the first n of lines, in a session for model.
RECURSIVE Session(_, _, _)
Session(model, lines, n) ==
    IF n = 0 THEN [IdleReq EXCEPT !.pc = "stream", !.kind = "chat", !.model = model]
    ELSE LET r == Session(model, lines, n - 1) IN
         IF r.pc = "raised" THEN r ELSE generate_line(r, lines[n])

\* The models of the chunks among the items of out.
ChunkModels(out) ==
    {out[i].json.model : i \in {j \in DOMAIN out : out[j].sse = "data"}}

\* C26: streams are independent.  Under every interleaving of two sessions,
\* the output of each, and the event name it remembers, is what generate
\* gives alone on that session's own request and own lines: no event name
\* of one session translates a data line of the other.
C26_StreamsIndependent ==
    /\ \A p \in Reqs :
         req[p].pc = "stream" =>
           LET alone == Session(req[p].model, req[p].read, Len(req[p].read)) IN
           /\ req[p].out = alone.out
           /\ req[p].event_type = alone.event_type
           /\ alone.pc = "stream"
    /\ (response.kind = "stream" /\ response.end \in {"closed", "raised"}) =>
          \E model \in {raw.json.model : raw \in SessionRequests} :
             LET alone == Session(model, response.read, Len(response.read)) IN
             /\ ChunkModels(response.out) \subseteq {model}
             /\ response.out = IF response.end = "closed"
                               THEN Append(alone.out, SseDone) ELSE alone.out
             /\ alone.pc = (IF response.end = "closed" THEN "stream" ELSE "raised")

\* C26 happens: two sessions for different models stream at once, each has
\* emitted a chunk, and they remember different event names.
C26_Witness ==
    \E p, q \in Reqs :
       /\ req[p].pc = "stream" /\ req[q].pc = "stream"
       /\ req[p].model # req[q].model
       /\ req[p].event_type = "content_block_delta"
       /\ req[q].event_type = "message_stop"
       /\ Len(req[p].out) > 0 /\ Len(req[q].out) > 0

\* Nothing is stored, and not because a refresh failed: the cache is empty
\* and the file absent since a clear() of POST /auth/logout (or since the
\* start), with no complete_auth_flow succeeded since.
LoggedOutState ==
    tm_tokens = None /\ token_file.kind = "absent" /\ ~failed_no_auth

\* C27: logout is not undone by a refresh in flight.  Once clear() has
\* emptied the cache and removed the file, they stay so until a
\* complete_auth_flow succeeds: a get_valid_token call that was suspended
\* in its refresh when clear() ran stores nothing when it finishes.
C27_LogoutNotUndone ==
    [][(LoggedOutState /\ (tm_tokens' # None \/ token_file'.kind # "absent"))
          => SavedBy("callback")
      ]_vars

\* The stored token set is newer than every token set a get_valid_token
\* call in flight is refreshing.
NewerStored ==
    /\ tm_tokens # None
    /\ FileTokens = tm_tokens
    /\ \A p \in Refreshing(req) : req[p].tokens # tm_tokens

\* C28: a failed refresh destroys only the token set it tried to refresh.
\* When a refresh fails after another operation (a concurrent refresh that
\* succeeded, or a complete_auth_flow) has stored a newer token set, the
\* newer token set stays in the cache and in the file.
C28_FailedRefreshKeepsNewer ==
    [][(NewerStored /\ RefreshFailed) =>
          (tm_tokens' = tm_tokens /\ FileTokens' = FileTokens)
      ]_vars

\* C29: cache and file agree.  In every state with no save or clear
\* part-way through (no handler between write_text and chmod), a token set
\* held in the cache is the one the token file encodes, the file existing.
C29_CacheAndFileAgree ==
    (Quiescent /\ tm_tokens # None) =>
       /\ token_file.kind = "tokens"
       /\ token_file.tok = to_dict(tm_tokens)
       /\ from_dict(token_file.tok) = tm_tokens

\* C29 happens: while a get_valid_token call is still suspended in the
\* refresh of the token set the run started with, the cache and the file
\* hold a token set saved since.
C29_Witness ==
    /\ Quiescent
    /\ tm_tokens # None
    /\ token_file.kind = "tokens"
    /\ token_file.tok = to_dict(tm_tokens)
    /\ \E p \in Refreshing(req) : req[p].tokens # tm_tokens

\* C30: one consistent finish reason per stream.  The output of a stream
\* that was message_start, content events, a message_delta with stop_reason
\* r and message_stop has exactly one chunk with a finish_reason, and it is
\* f(r).
C30_OneFinishReason ==
    (response.kind = "stream" /\ response.end = "closed"
     /\ response.read \in MessageBodies) =>
       LET finishes == Finishes(response.out, Len(response.out))
           expected == ExpectedFinishes(response.read, Len(response.read))
       IN  /\ Len(expected) = 1
           /\ Len(finishes) = 1
           /\ finishes[1] = expected[1]
====
